---- MODULE Spec2Model ----
(***************************************************************************)
(* A model of the canvas drawing engine of src/components/CanvasBoard.tsx: *)
(* the main ("committed") canvas, the temp ("scratch") canvas and its 2D   *)
(* context, the history of ImageData snapshots with its step index, the    *)
(* pointer handlers, the imperative handle (clear, undo, redo, loadImage)  *)
(* and the resize handler; and of the send handler of the host component    *)
(* in src/services/geminiService.ts.                                       *)
(*                                                                         *)
(* Pixels are one 8-bit channel (a grey level); every pixel of the main    *)
(* canvas is opaque, a pixel of the temp canvas is a grey level or         *)
(* Transparent.  Scaling draws (drawImage with a destination size) sample  *)
(* the source at the centre of each destination pixel.  A pointer position *)
(* is the centre of a pixel of the container.                              *)
(***************************************************************************)
EXTENDS Integers, Sequences, FiniteSets, TLC

VARIABLES
    mounted,      \* the mount effects have run
    tool,         \* the `tool` prop the host passes (its current DrawingTool)
    isDrawing,    \* useState(false), line 26
    main,         \* mainCanvasRef: the committed surface [w, h, px]
    temp,         \* tempCanvasRef: the scratch surface [w, h, px]
    tctx,         \* tempCtxRef: current path and stroke style of the temp context
    historyRef,   \* historyRef.current: sequence of ImageData
    historyStep,  \* historyStep.current: 0-based index into historyRef, -1 when empty
    pending,      \* images whose decode is in flight (loadImage called, no event yet)
    nRecords,     \* history: number of saveToHistory calls so far
    openStroke,   \* history: the tool at the last pointer-down and the points since
    last,         \* history: the last operation and what it started from
    messages,     \* host: useState<ChatMessage[]>([]), the chat so far
    isProcessing, \* host: useState(false), a generation request is in flight
    requests      \* host: calls of generateImageFromSketch that have not settled

vars == <<mounted, tool, isDrawing, main, temp, tctx, historyRef, historyStep,
          pending, nRecords, openStroke, last, messages, isProcessing, requests>>

\* The state of the host component that the send handler reads and writes.
hostVars == <<messages, isProcessing, requests>>

----------------------------------------------------------------------------
(* Bounds of the model *)

MaxRecords == 3     \* saveToHistory calls in one behaviour of Spec
MaxPath == 3        \* vertices of the temp context's current path
MaxPending == 1     \* decodes in flight at once

(* Program constants *)

MaxHistory == 50    \* "Limit history depth"
White == 255        \* '#ffffff'
Black == 0          \* '#000000': the host's initial colour, and a context's default strokeStyle
Red == 100          \* a palette colour other than black, as a grey level
Transparent == -1   \* a cleared pixel of the temp canvas
OpacityScale == 10  \* opacity is counted in tenths (the host's slider step)

Dim(w, h) == [w |-> w, h |-> h]

\* A fresh <canvas> element is 300 x 150: two by one in the model's units.
DefaultDim == Dim(2, 1)

\* The container sizes the layout can take.
Dims == {Dim(2, 1), Dim(2, 2)}

\* The host's initial tool (useState in App).
InitialTool ==
    [color |-> Black, width |-> 1, mode |-> "brush", shape |-> "round", opacity |-> 10]

\* The tool configurations the host switches between.
Tools ==
    { InitialTool,
      [color |-> Red, width |-> 1, mode |-> "brush", shape |-> "round", opacity |-> 5],
      [color |-> Red, width |-> 1, mode |-> "eraser", shape |-> "square", opacity |-> 5] }

\* Tool configurations outside the ranges of the host's sliders: no width,
\* a negative width, an opacity above 1.
BadTools ==
    { [color |-> Black, width |-> 0, mode |-> "brush", shape |-> "round", opacity |-> 10],
      [color |-> Black, width |-> -1, mode |-> "brush", shape |-> "round", opacity |-> 10],
      [color |-> Black, width |-> 1, mode |-> "brush", shape |-> "round", opacity |-> 11] }

\* Pointer positions: centres of container pixels.
Points == {<<1, 1>>, <<2, 1>>}

\* Where a single tap lands.
TapPoints == {<<1, 1>>}

----------------------------------------------------------------------------
(* The canvas API, as far as the component uses it *)

Pixels(w, h) == (1 .. w) \X (1 .. h)

\* fillRect(0, 0, w, h) with an opaque fillStyle c on a w x h canvas; with
\* c = Transparent, clearRect(0, 0, w, h).
Fill(d, c) == [w |-> d.w, h |-> d.h, px |-> [p \in Pixels(d.w, d.h) |-> c]]

DimOf(s) == Dim(s.w, s.h)

\* The source index sampled for destination index i when m source pixels
\* are drawn over n destination pixels.
SrcIdx(i, n, m) == (((2 * i - 1) * m) \div (2 * n)) + 1

\* fillRect(white) then drawImage(s, 0, 0, d.w, d.h): s stretched to the full
\* bounds of a d.w x d.h canvas (s is opaque, so the fill is covered).
Stretch(s, d) ==
    [w |-> d.w, h |-> d.h,
     px |-> [p \in Pixels(d.w, d.h) |->
                s.px[<<SrcIdx(p[1], d.w, s.w), SrcIdx(p[2], d.h, s.h)>>]]]

\* source-over of an opaque colour src on dst with globalAlpha a / OpacityScale
Blend(src, dst, a) == (src * a + dst * (OpacityScale - a)) \div OpacityScale

\* drawImage(t, 0, 0) on m with globalAlpha a: t is drawn at its own size
\* from the top-left corner.
Composite(m, t, a) ==
    [m EXCEPT !.px = [p \in Pixels(m.w, m.h) |->
        IF p \in Pixels(t.w, t.h) /\ t.px[p] # Transparent
        THEN Blend(t.px[p], m.px[p], a)
        ELSE m.px[p]]]

\* A context right after its canvas was created or had width/height set.
ResetCtx == [path |-> <<>>, strokeStyle |-> Black, lineWidth |-> 1, lineCap |-> "butt"]

\* ctx.lineWidth = v: zero and negative values are ignored.
SetLineWidth(c, v) == IF v > 0 THEN [c EXCEPT !.lineWidth = v] ELSE c

\* lineTo(p): with no current subpath it only starts one at p.
LineTo(c, p) == [c EXCEPT !.path = Append(c.path, p)]

Min(a, b) == IF a < b THEN a ELSE b
Max(a, b) == IF a > b THEN a ELSE b

\* Pixel q is within half a line width of the segment a-b (both caps extend
\* the line by half its width).
OnSegment(q, a, b, lw) ==
    LET r == (lw - 1) \div 2
    IN  /\ Min(a[1], b[1]) - r <= q[1] /\ q[1] <= Max(a[1], b[1]) + r
        /\ Min(a[2], b[2]) - r <= q[2] /\ q[2] <= Max(a[2], b[2]) + r

\* Pixels the current path covers: those on one of its segments (a subpath
\* of a single vertex has none).
Covered(c, q) ==
    \E i \in 1 .. (Len(c.path) - 1) :
        OnSegment(q, c.path[i], c.path[i + 1], c.lineWidth)

\* ctx.stroke(): the whole current path is painted with the current style.
Stroke(t, c) ==
    [t EXCEPT !.px = [q \in Pixels(t.w, t.h) |->
        IF Covered(c, q) THEN c.strokeStyle ELSE t.px[q]]]

----------------------------------------------------------------------------
(* History *)

\* saveToHistory testing the limit on the length before the slice of lines
\* 36-38: a record that drops a redo tail from a full history also shifts.
saveToHistoryStaleLength(h, step, img) ==
    LET kept == IF step < Len(h) - 1 THEN SubSeq(h, 1, step + 1) ELSE h
        pushed == Append(kept, img)
    IN  IF Len(h) + 1 > MaxHistory
        THEN [h |-> Tail(pushed), step |-> (Len(pushed) - 1) - 1]
        ELSE [h |-> pushed, step |-> Len(pushed) - 1]

\* saveToHistory with pop() for the shift() of line 47: over the limit the
\* newest entry is dropped, not the oldest.
saveToHistoryPop(h, step, img) ==
    LET kept == IF step < Len(h) - 1 THEN SubSeq(h, 1, step + 1) ELSE h
        pushed == Append(kept, img)
    IN  IF Len(pushed) > MaxHistory
        THEN [h |-> SubSeq(pushed, 1, Len(pushed) - 1), step |-> (Len(pushed) - 1) - 1]
        ELSE [h |-> pushed, step |-> Len(pushed) - 1]

\* saveToHistory without lines 36-38: the redo tail is kept.
saveToHistoryKeepTail(h, step, img) ==
    LET pushed == Append(h, img)
    IN  IF Len(pushed) > MaxHistory
        THEN [h |-> Tail(pushed), step |-> (Len(pushed) - 1) - 1]
        ELSE [h |-> pushed, step |-> Len(pushed) - 1]

\* saveToHistory without line 48: the oldest entry is shifted out and the
\* step stays where the push left it.
saveToHistoryNoDecrement(h, step, img) ==
    LET kept == IF step < Len(h) - 1 THEN SubSeq(h, 1, step + 1) ELSE h
        pushed == Append(kept, img)
    IN  IF Len(pushed) > MaxHistory
        THEN [h |-> Tail(pushed), step |-> Len(pushed) - 1]
        ELSE [h |-> pushed, step |-> Len(pushed) - 1]

\* saveToHistory without lines 46-49: no limit on the history.
saveToHistoryNoLimit(h, step, img) ==
    LET kept == IF step < Len(h) - 1 THEN SubSeq(h, 1, step + 1) ELSE h
        pushed == Append(kept, img)
    IN  [h |-> pushed, step |-> Len(pushed) - 1]

\* saveToHistory(ctx): the history and step after recording snapshot img
\* (getImageData of the whole main canvas) in history h at step.
saveToHistory(h, step, img) ==
    LET kept == IF step < Len(h) - 1 THEN SubSeq(h, 1, step + 1) ELSE h
        pushed == Append(kept, img)
    IN  IF Len(pushed) > MaxHistory
        THEN [h |-> Tail(pushed), step |-> (Len(pushed) - 1) - 1]
        ELSE [h |-> pushed, step |-> Len(pushed) - 1]

\* applyHistoryItem without the test of line 56: putImageData(imageData, 0, 0)
\* whatever the item's size, which writes the item unscaled from the corner.
applyHistoryItemUnscaled(m, imageData) ==
    [m EXCEPT !.px = [p \in Pixels(m.w, m.h) |->
        IF p \in Pixels(imageData.w, imageData.h) THEN imageData.px[p] ELSE m.px[p]]]

\* applyHistoryItem taking the item as the canvas, at the item's size.
applyHistoryItemAsIs(m, imageData) == imageData

\* applyHistoryItem(ctx, imageData): the main canvas m after the item is applied.
applyHistoryItem(m, imageData) ==
    IF imageData.w = m.w /\ imageData.h = m.h
    THEN imageData
    ELSE Stretch(imageData, DimOf(m))

\* undo without line 192: the step moves, the canvas is not restored.
undoStepOnly(h, step, m) ==
    IF step > 0
    THEN [step |-> step - 1, main |-> m]
    ELSE [step |-> step, main |-> m]

\* undo guarded by step >= 0 instead of step > 0.
undoBelowFirst(h, step, m) ==
    IF step >= 0
    THEN [step |-> step - 1,
          main |-> IF (step - 1) + 1 \in DOMAIN h
                   THEN applyHistoryItem(m, h[(step - 1) + 1]) ELSE m]
    ELSE [step |-> step, main |-> m]

\* undo(): the step and main canvas it leaves.
undo(h, step, m) ==
    IF step > 0
    THEN [step |-> step - 1,
          main |-> IF (step - 1) + 1 \in DOMAIN h
                   THEN applyHistoryItem(m, h[(step - 1) + 1]) ELSE m]
    ELSE [step |-> step, main |-> m]

\* redo guarded by step <= length - 1 instead of step < length - 1.
redoPastLast(h, step, m) ==
    IF step <= Len(h) - 1
    THEN [step |-> step + 1,
          main |-> IF (step + 1) + 1 \in DOMAIN h
                   THEN applyHistoryItem(m, h[(step + 1) + 1]) ELSE m]
    ELSE [step |-> step, main |-> m]

\* redo(): the step and main canvas it leaves.
redo(h, step, m) ==
    IF step < Len(h) - 1
    THEN [step |-> step + 1,
          main |-> IF (step + 1) + 1 \in DOMAIN h
                   THEN applyHistoryItem(m, h[(step + 1) + 1]) ELSE m]
    ELSE [step |-> step, main |-> m]

\* exportImage(): the PNG data URL of the main canvas.
exportImage(m) == [mime |-> "image/png", w |-> m.w, h |-> m.h, data |-> m.px]

\* What a caller holding the CanvasRef handle can read of the engine:
\* exportImage() is the only method that returns a value; clearCanvas, undo,
\* redo and loadImage return nothing and take no callback.
CallerView(m) == [exportImage |-> exportImage(m), loadImage |-> "undefined"]

----------------------------------------------------------------------------
(* Resize *)

\* handleResize without the test of line 113: the canvases are resized and
\* redrawn on every call.
handleResizeAlways(m, t, c, shape, d) ==
    [main |-> Stretch(m, d),
     temp |-> Fill(d, Transparent),
     tctx |-> [ResetCtx EXCEPT !.lineCap = shape]]

\* handleResize without lines 116-122 and 133: the resized main canvas is
\* filled white and nothing is drawn back.
handleResizeBlank(m, t, c, shape, d) ==
    IF m.w = d.w /\ m.h = d.h
    THEN [main |-> m, temp |-> t, tctx |-> c]
    ELSE [main |-> Fill(d, White),
          temp |-> Fill(d, Transparent),
          tctx |-> [ResetCtx EXCEPT !.lineCap = shape]]

\* handleResize() with the container measuring d: the surfaces and the temp
\* context it leaves. Setting a canvas's width or height clears it and
\* resets its context.
handleResize(m, t, c, shape, d) ==
    IF m.w = d.w /\ m.h = d.h
    THEN [main |-> m, temp |-> t, tctx |-> c]
    ELSE [main |-> Stretch(m, d),
          temp |-> Fill(d, Transparent),
          tctx |-> [ResetCtx EXCEPT !.lineCap = shape]]

----------------------------------------------------------------------------
(* Image load *)

\* A decoded 2 x 1 image: a black pixel beside a red one.
Photo == [w |-> 2, h |-> 1, px |-> [p \in Pixels(2, 1) |-> IF p[1] = 1 THEN Black ELSE Red]]

\* Another decoded 2 x 1 image: a red pixel beside a black one.
Mirror == [w |-> 2, h |-> 1, px |-> [p \in Pixels(2, 1) |-> IF p[1] = 1 THEN Red ELSE Black]]

\* Two sources that decode to different images.
Images == {[ok |-> TRUE, img |-> Photo], [ok |-> TRUE, img |-> Mirror]}

\* What the host passes to loadImage: a source that decodes to Photo, and
\* one that does not decode.
Sources == {[ok |-> TRUE, img |-> Photo], [ok |-> FALSE, img |-> Photo]}

\* The aspect fit with the comparison of line 226 reversed: the image covers
\* the canvas instead of fitting in it.
AspectFitCover(iw, ih, cw, ch) ==
    IF iw * ch < cw * ih
    THEN [den |-> 2 * iw,
          drawWidth |-> cw * (2 * iw), drawHeight |-> 2 * (cw * ih),
          offsetX |-> 0, offsetY |-> ch * iw - cw * ih]
    ELSE [den |-> 2 * ih,
          drawWidth |-> 2 * (ch * iw), drawHeight |-> ch * (2 * ih),
          offsetX |-> cw * ih - ch * iw, offsetY |-> 0]

\* "Calculate Aspect Fit": the rectangle for an iw x ih image on a cw x ch
\* canvas, its four numbers as numerators over the common denominator den.
AspectFit(iw, ih, cw, ch) ==
    IF iw * ch > cw * ih
    THEN \* imgRatio > canvasRatio: "Image is wider"
         [den |-> 2 * iw,
          drawWidth |-> cw * (2 * iw), drawHeight |-> 2 * (cw * ih),
          offsetX |-> 0, offsetY |-> ch * iw - cw * ih]
    ELSE \* "Image is taller"
         [den |-> 2 * ih,
          drawWidth |-> 2 * (ch * iw), drawHeight |-> ch * (2 * ih),
          offsetX |-> cw * ih - ch * iw, offsetY |-> 0]

\* drawImage(img, offsetX, offsetY, drawWidth, drawHeight) on m: a pixel
\* whose centre is inside the rectangle takes the image sample under it.
DrawImageAt(m, img, r) ==
    [m EXCEPT !.px = [p \in Pixels(m.w, m.h) |->
        LET cx == (2 * p[1] - 1) * (r.den \div 2)
            cy == (2 * p[2] - 1) * (r.den \div 2)
        IN  IF /\ r.offsetX <= cx /\ cx < r.offsetX + r.drawWidth
               /\ r.offsetY <= cy /\ cy < r.offsetY + r.drawHeight
            THEN img.px[<<(((cx - r.offsetX) * img.w) \div r.drawWidth) + 1,
                          (((cy - r.offsetY) * img.h) \div r.drawHeight) + 1>>]
            ELSE m.px[p]]]

\* img.onload: the main canvas after the fill and the fitted draw.
placeImage(m, img) ==
    DrawImageAt(Fill(DimOf(m), White), img, AspectFit(img.w, img.h, m.w, m.h))

----------------------------------------------------------------------------
(* The state machine *)

NoStroke == [tool |-> InitialTool, pts |-> <<>>]

\* What `last` holds after handler `name`: whether it passed its guard (eff),
\* and the step and history length it started from.
Op(name, eff) == [op |-> name, eff |-> eff, step |-> historyStep, len |-> Len(historyRef)]

\* Before the component mounts: two fresh canvases, an empty history.
Init ==
    /\ mounted = FALSE
    /\ tool = InitialTool
    /\ isDrawing = FALSE
    /\ main = Fill(DefaultDim, Transparent)
    /\ temp = Fill(DefaultDim, Transparent)
    /\ tctx = ResetCtx
    /\ historyRef = <<>>
    /\ historyStep = -1
    /\ pending = <<>>
    /\ nRecords = 0
    /\ openStroke = NoStroke
    /\ last = [op |-> "none", eff |-> FALSE, step |-> -1, len |-> 0]
    /\ messages = <<>>
    /\ isProcessing = FALSE
    /\ requests = <<>>

\* The three effects of the first render, in order: "Initialize Canvases",
\* "Handle Resize" (the container measures d) and the tool effect.
Mount(d) ==
    /\ ~mounted
    /\ mounted' = TRUE
    /\ LET filled == Fill(DimOf(main), White)
           saved == IF Len(historyRef) = 0
                    THEN saveToHistory(historyRef, historyStep, filled)
                    ELSE [h |-> historyRef, step |-> historyStep]
           r == handleResize(filled, temp, [tctx EXCEPT !.lineCap = "round"],
                             tool.shape, d)
       IN  /\ main' = r.main
           /\ temp' = r.temp
           /\ tctx' = [r.tctx EXCEPT !.lineCap = tool.shape]
           /\ historyRef' = saved.h
           /\ historyStep' = saved.step
    /\ nRecords' = nRecords + 1
    /\ last' = Op("mount", TRUE)
    /\ UNCHANGED <<tool, isDrawing, pending, openStroke>>
    /\ UNCHANGED hostVars

\* The mount effects run again without the test of line 96: the blank canvas
\* is recorded a second time.
RemountRecording(d) ==
    /\ mounted
    /\ LET filled == Fill(DimOf(main), White)
           saved == saveToHistory(historyRef, historyStep, filled)
           r == handleResize(filled, temp, [tctx EXCEPT !.lineCap = "round"],
                             tool.shape, d)
       IN  /\ main' = r.main
           /\ temp' = r.temp
           /\ tctx' = [r.tctx EXCEPT !.lineCap = tool.shape]
           /\ historyRef' = saved.h
           /\ historyStep' = saved.step
    /\ last' = Op("remount", TRUE)
    /\ UNCHANGED <<mounted, tool, isDrawing, pending, nRecords, openStroke>>
    /\ UNCHANGED hostVars

\* The mount effects run a second time on the same elements and refs (the
\* double invocation of effects of a development build): the main canvas is
\* filled again, the initial save is skipped as the history has an entry.
Remount(d) ==
    /\ mounted
    /\ LET filled == Fill(DimOf(main), White)
           saved == IF Len(historyRef) = 0
                    THEN saveToHistory(historyRef, historyStep, filled)
                    ELSE [h |-> historyRef, step |-> historyStep]
           r == handleResize(filled, temp, [tctx EXCEPT !.lineCap = "round"],
                             tool.shape, d)
       IN  /\ main' = r.main
           /\ temp' = r.temp
           /\ tctx' = [r.tctx EXCEPT !.lineCap = tool.shape]
           /\ historyRef' = saved.h
           /\ historyStep' = saved.step
    /\ last' = Op("remount", TRUE)
    /\ UNCHANGED <<mounted, tool, isDrawing, pending, nRecords, openStroke>>
    /\ UNCHANGED hostVars

\* A resize that also records the resized canvas.
ResizeRecording(d) ==
    /\ mounted
    /\ LET r == handleResize(main, temp, tctx, tool.shape, d)
           saved == saveToHistory(historyRef, historyStep, r.main)
       IN  /\ main' = r.main
           /\ temp' = r.temp
           /\ tctx' = r.tctx
           /\ historyRef' = saved.h
           /\ historyStep' = saved.step
    /\ last' = Op("resize", DimOf(main) # d)
    /\ UNCHANGED <<mounted, tool, isDrawing, pending, nRecords, openStroke>>
    /\ UNCHANGED hostVars

\* A window resize event with the container measuring d.
Resize(d) ==
    /\ mounted
    /\ LET r == handleResize(main, temp, tctx, tool.shape, d)
       IN  /\ main' = r.main
           /\ temp' = r.temp
           /\ tctx' = r.tctx
    /\ last' = Op("resize", DimOf(main) # d)
    /\ UNCHANGED <<mounted, tool, isDrawing, historyRef, historyStep, pending,
                   nRecords, openStroke>>
    /\ UNCHANGED hostVars

\* The host passes another tool: the tool effect sets the temp context's
\* line cap, and a changed shape re-runs the resize effect, which calls
\* handleResize with the container as it is.
ToolChange(t) ==
    /\ mounted
    /\ t # tool
    /\ tool' = t
    /\ LET r == IF t.shape # tool.shape
                THEN handleResize(main, temp, tctx, t.shape, DimOf(main))
                ELSE [main |-> main, temp |-> temp, tctx |-> tctx]
       IN  /\ main' = r.main
           /\ temp' = r.temp
           /\ tctx' = [r.tctx EXCEPT !.lineCap = t.shape]
    /\ last' = Op("tool", TRUE)
    /\ UNCHANGED <<mounted, isDrawing, historyRef, historyStep, pending,
                   nRecords, openStroke>>
    /\ UNCHANGED hostVars

\* startDrawing: mouse-down or touch-start at p.
startDrawingCtx(c, t, p) ==
    LineTo([SetLineWidth([c EXCEPT !.path = <<p>>,
                                   !.strokeStyle = IF t.mode = "eraser" THEN White
                                                   ELSE t.color],
                         t.width)
            EXCEPT !.path = <<p>>], p)

\* StartDrawing stroking on the main canvas as well as on the temp canvas.
StartDrawingOnMain(p) ==
    /\ mounted
    /\ isDrawing' = TRUE
    /\ tctx' = startDrawingCtx(tctx, tool, p)
    /\ temp' = Stroke(temp, tctx')
    /\ main' = Stroke(main, tctx')
    /\ openStroke' = [tool |-> tool, pts |-> <<p, p>>]
    /\ last' = Op("down", TRUE)
    /\ UNCHANGED <<mounted, tool, historyRef, historyStep, pending, nRecords>>
    /\ UNCHANGED hostVars

StartDrawing(p) ==
    /\ mounted
    /\ isDrawing' = TRUE
    /\ tctx' = startDrawingCtx(tctx, tool, p)
    /\ temp' = Stroke(temp, tctx')
    /\ openStroke' = [tool |-> tool, pts |-> <<p, p>>]
    /\ last' = Op("down", TRUE)
    /\ UNCHANGED <<mounted, tool, main, historyRef, historyStep, pending, nRecords>>
    /\ UNCHANGED hostVars

\* draw without line 287: the move is added to the path and stroked whether
\* or not a stroke is open.
DrawUnguarded(p) ==
    /\ mounted
    /\ tctx' = LineTo(tctx, p)
    /\ temp' = Stroke(temp, tctx')
    /\ openStroke' = IF isDrawing THEN [openStroke EXCEPT !.pts = Append(@, p)]
                     ELSE openStroke
    /\ last' = Op("move", isDrawing)
    /\ UNCHANGED <<mounted, tool, isDrawing, main, historyRef, historyStep,
                   pending, nRecords>>
    /\ UNCHANGED hostVars

\* draw: mouse-move or touch-move at p.
Draw(p) ==
    /\ mounted
    /\ IF isDrawing
       THEN /\ tctx' = LineTo(tctx, p)
            /\ temp' = Stroke(temp, tctx')
            /\ openStroke' = [openStroke EXCEPT !.pts = Append(@, p)]
       ELSE UNCHANGED <<tctx, temp, openStroke>>
    /\ last' = Op("move", isDrawing)
    /\ UNCHANGED <<mounted, tool, isDrawing, main, historyRef, historyStep,
                   pending, nRecords>>
    /\ UNCHANGED hostVars

\* Line 308 without the mode test: the tool's opacity for every mode.
compositeAlphaAnyMode(t) == t.opacity

\* The globalAlpha stopDrawing composites with.
\* An assignment of a value outside [0, 1] to globalAlpha is ignored, which
\* leaves the 1 of the saved state.
compositeAlpha(t) ==
    IF t.mode = "eraser" THEN OpacityScale
    ELSE IF t.opacity \in 0 .. OpacityScale THEN t.opacity
    ELSE OpacityScale

\* stopDrawing with the save of line 313 before the composite of lines
\* 307-310: the entry recorded is the canvas without the stroke.
StopDrawingSaveFirst ==
    /\ mounted
    /\ IF isDrawing
       THEN /\ isDrawing' = FALSE
            /\ main' = Composite(main, temp, compositeAlpha(tool))
            /\ LET saved == saveToHistory(historyRef, historyStep, main)
               IN  /\ historyRef' = saved.h
                   /\ historyStep' = saved.step
            /\ temp' = Fill(DimOf(temp), Transparent)
            /\ tctx' = [tctx EXCEPT !.path = <<>>]
            /\ nRecords' = nRecords + 1
            /\ openStroke' = NoStroke
       ELSE UNCHANGED <<isDrawing, main, historyRef, historyStep, temp, tctx,
                        nRecords, openStroke>>
    /\ last' = Op("up", isDrawing)
    /\ UNCHANGED <<mounted, tool, pending>>
    /\ UNCHANGED hostVars

\* stopDrawing without line 299: it composites and records on every event.
StopDrawingUnguarded ==
    /\ mounted
    /\ isDrawing' = FALSE
    /\ main' = Composite(main, temp, compositeAlpha(tool))
    /\ LET saved == saveToHistory(historyRef, historyStep, main')
       IN  /\ historyRef' = saved.h
           /\ historyStep' = saved.step
    /\ temp' = Fill(DimOf(temp), Transparent)
    /\ tctx' = [tctx EXCEPT !.path = <<>>]
    /\ nRecords' = nRecords + 1
    /\ openStroke' = NoStroke
    /\ last' = Op("up", isDrawing)
    /\ UNCHANGED <<mounted, tool, pending>>
    /\ UNCHANGED hostVars

\* stopDrawing: mouse-up, mouse-leave or touch-end.
StopDrawing ==
    /\ mounted
    /\ IF isDrawing
       THEN /\ isDrawing' = FALSE
            /\ main' = Composite(main, temp, compositeAlpha(tool))
            /\ LET saved == saveToHistory(historyRef, historyStep, main')
               IN  /\ historyRef' = saved.h
                   /\ historyStep' = saved.step
            /\ temp' = Fill(DimOf(temp), Transparent)
            /\ tctx' = [tctx EXCEPT !.path = <<>>]
            /\ nRecords' = nRecords + 1
            /\ openStroke' = NoStroke
       ELSE UNCHANGED <<isDrawing, main, historyRef, historyStep, temp, tctx,
                        nRecords, openStroke>>
    /\ last' = Op("up", isDrawing)
    /\ UNCHANGED <<mounted, tool, pending>>
    /\ UNCHANGED hostVars

\* A clearCanvas that drops the decodes in flight.
ClearCanvasCancelling ==
    /\ mounted
    /\ main' = Fill(DimOf(main), White)
    /\ LET saved == saveToHistory(historyRef, historyStep, main')
       IN  /\ historyRef' = saved.h
           /\ historyStep' = saved.step
    /\ temp' = Fill(DimOf(temp), Transparent)
    /\ pending' = <<>>
    /\ nRecords' = nRecords + 1
    /\ last' = Op("clear", TRUE)
    /\ UNCHANGED <<mounted, tool, isDrawing, tctx, openStroke>>
    /\ UNCHANGED hostVars

\* clearCanvas without line 177: nothing is recorded.
ClearCanvasUnrecorded ==
    /\ mounted
    /\ main' = Fill(DimOf(main), White)
    /\ temp' = Fill(DimOf(temp), Transparent)
    /\ last' = Op("clear", TRUE)
    /\ UNCHANGED <<mounted, tool, isDrawing, tctx, pending, openStroke,
                   historyRef, historyStep, nRecords>>
    /\ UNCHANGED hostVars

\* clearCanvas()
ClearCanvas ==
    /\ mounted
    /\ main' = Fill(DimOf(main), White)
    /\ LET saved == saveToHistory(historyRef, historyStep, main')
       IN  /\ historyRef' = saved.h
           /\ historyStep' = saved.step
    /\ temp' = Fill(DimOf(temp), Transparent)
    /\ nRecords' = nRecords + 1
    /\ last' = Op("clear", TRUE)
    /\ UNCHANGED <<mounted, tool, isDrawing, tctx, pending, openStroke>>
    /\ UNCHANGED hostVars

\* An undo that abandons the open stroke: the temp canvas is cleared and
\* the stroke closed.
UndoClosing ==
    /\ mounted
    /\ LET r == undo(historyRef, historyStep, main)
       IN  /\ historyStep' = r.step
           /\ main' = r.main
    /\ isDrawing' = FALSE
    /\ temp' = Fill(DimOf(temp), Transparent)
    /\ last' = Op("undo", historyStep > 0)
    /\ UNCHANGED <<mounted, tool, tctx, historyRef, pending,
                   nRecords, openStroke>>
    /\ UNCHANGED hostVars

\* An undo that also drops the entries after the step it moves to.
UndoDropping ==
    /\ mounted
    /\ LET r == undo(historyRef, historyStep, main)
       IN  /\ historyStep' = r.step
           /\ main' = r.main
           /\ historyRef' = SubSeq(historyRef, 1, r.step + 1)
    /\ last' = Op("undo", historyStep > 0)
    /\ UNCHANGED <<mounted, tool, isDrawing, temp, tctx, pending,
                   nRecords, openStroke>>
    /\ UNCHANGED hostVars

\* undo()
Undo ==
    /\ mounted
    /\ LET r == undo(historyRef, historyStep, main)
       IN  /\ historyStep' = r.step
           /\ main' = r.main
    /\ last' = Op("undo", historyStep > 0)
    /\ UNCHANGED <<mounted, tool, isDrawing, temp, tctx, historyRef, pending,
                   nRecords, openStroke>>
    /\ UNCHANGED hostVars

\* redo()
Redo ==
    /\ mounted
    /\ LET r == redo(historyRef, historyStep, main)
       IN  /\ historyStep' = r.step
           /\ main' = r.main
    /\ last' = Op("redo", historyStep < Len(historyRef) - 1)
    /\ UNCHANGED <<mounted, tool, isDrawing, temp, tctx, historyRef, pending,
                   nRecords, openStroke>>
    /\ UNCHANGED hostVars

\* The host calls exportImage(): `last.url` is what it returns.
ExportImage ==
    /\ mounted
    /\ last' = Op("export", TRUE) @@ [url |-> exportImage(main)]
    /\ UNCHANGED <<mounted, tool, isDrawing, main, temp, tctx, historyRef,
                   historyStep, pending, nRecords, openStroke>>
    /\ UNCHANGED hostVars

\* loadImage(src): the decode starts.
LoadImage(src) ==
    /\ mounted
    /\ pending' = Append(pending, src)
    /\ last' = Op("load", TRUE)
    /\ UNCHANGED <<mounted, tool, isDrawing, main, temp, tctx, historyRef,
                   historyStep, nRecords, openStroke>>
    /\ UNCHANGED hostVars

Remove(q, i) == SubSeq(q, 1, i - 1) \o SubSeq(q, i + 1, Len(q))

\* img.onload fitting the image to the size the canvas had at the call.
ImageLoadedAtRequest(i) ==
    /\ i \in DOMAIN pending
    /\ pending[i].ok
    /\ main' = DrawImageAt(Fill(DimOf(main), White), pending[i].img,
                           AspectFit(pending[i].img.w, pending[i].img.h,
                                     pending[i].at.w, pending[i].at.h))
    /\ LET saved == saveToHistory(historyRef, historyStep, main')
       IN  /\ historyRef' = saved.h
           /\ historyStep' = saved.step
    /\ pending' = Remove(pending, i)
    /\ nRecords' = nRecords + 1
    /\ last' = Op("loaded", TRUE) @@ [idx |-> i, src |-> pending[i]]
    /\ UNCHANGED <<mounted, tool, isDrawing, temp, tctx, openStroke>>
    /\ UNCHANGED hostVars

\* img.onload of the i-th decode in flight. `last` also keeps which entry
\* it was.
ImageLoaded(i) ==
    /\ i \in DOMAIN pending
    /\ pending[i].ok
    /\ main' = placeImage(main, pending[i].img)
    /\ LET saved == saveToHistory(historyRef, historyStep, main')
       IN  /\ historyRef' = saved.h
           /\ historyStep' = saved.step
    /\ pending' = Remove(pending, i)
    /\ nRecords' = nRecords + 1
    /\ last' = Op("loaded", TRUE) @@ [idx |-> i, src |-> pending[i]]
    /\ UNCHANGED <<mounted, tool, isDrawing, temp, tctx, openStroke>>
    /\ UNCHANGED hostVars

\* A failed decode that runs the fill of lines 213-214 and draws nothing.
ImageFailedBlank(i) ==
    /\ i \in DOMAIN pending
    /\ ~pending[i].ok
    /\ main' = Fill(DimOf(main), White)
    /\ pending' = Remove(pending, i)
    /\ last' = Op("failed", TRUE)
    /\ UNCHANGED <<mounted, tool, isDrawing, temp, tctx, historyRef,
                   historyStep, nRecords, openStroke>>
    /\ UNCHANGED hostVars

\* The i-th decode in flight fails: the image has no error handler.
ImageFailed(i) ==
    /\ i \in DOMAIN pending
    /\ ~pending[i].ok
    /\ pending' = Remove(pending, i)
    /\ last' = Op("failed", TRUE)
    /\ UNCHANGED <<mounted, tool, isDrawing, main, temp, tctx, historyRef,
                   historyStep, nRecords, openStroke>>
    /\ UNCHANGED hostVars

----------------------------------------------------------------------------
(* Specifications *)

\* The main canvas after a tap at <<1, 1>> with the initial tool on a blank
\* canvas of the default size.
Tapped ==
    Composite(Fill(DefaultDim, White),
              Stroke(Fill(DefaultDim, Transparent),
                     startDrawingCtx(ResetCtx, InitialTool, <<1, 1>>)),
              compositeAlpha(InitialTool))

\* One entry short of the history limit: the component mounted in a
\* container of the default size and the user tapped MaxHistory - 2 times
\* at <<1, 1>> with the initial tool.
NearCap == MaxHistory - 1

InitNearCap ==
    /\ mounted = TRUE
    /\ tool = InitialTool
    /\ isDrawing = FALSE
    /\ main = Tapped
    /\ temp = Fill(DefaultDim, Transparent)
    /\ tctx = [path |-> <<>>, strokeStyle |-> InitialTool.color,
               lineWidth |-> InitialTool.width, lineCap |-> InitialTool.shape]
    /\ historyRef = [i \in 1 .. NearCap |->
                       IF i = 1 THEN Fill(DefaultDim, White) ELSE Tapped]
    /\ historyStep = NearCap - 1
    /\ pending = <<>>
    /\ nRecords = NearCap
    /\ openStroke = NoStroke
    /\ last = [op |-> "up", eff |-> TRUE, step |-> NearCap - 2, len |-> NearCap - 1]
    /\ messages = <<>>
    /\ isProcessing = FALSE
    /\ requests = <<>>

\* The bounds, as guards of the next-state relations.
MayRecord == nRecords < MaxRecords
MayRecordCap == nRecords < NearCap + MaxRecords
MayRecordOne == nRecords < MaxRecords - 1
MayUndo == historyStep > (Len(historyRef) - 1) - MaxRecords
MayMove == Len(openStroke.pts) < MaxPath
MayLoad == Len(pending) < MaxPending

\* The engine under one tool, every stroke a single tap.
Next ==
    \/ \E d \in Dims : Mount(d)
    \/ \E d \in Dims : Resize(d)
    \/ \E p \in TapPoints : StartDrawing(p)
    \/ (isDrawing => MayRecord) /\ StopDrawing
    \/ MayRecord /\ ClearCanvas
    \/ MayUndo /\ Undo
    \/ Redo
    \/ \E src \in Sources : MayLoad /\ LoadImage(src)
    \/ \E i \in 1 .. MaxPending : MayRecord /\ ImageLoaded(i)
    \/ \E i \in 1 .. MaxPending : ImageFailed(i)

Spec == Init /\ [][Next]_vars

\* Every operation of the engine, one record after the mount.
NextFrame ==
    \/ \E d \in Dims : Mount(d)
    \/ \E d \in Dims : Resize(d)
    \/ \E p \in TapPoints : ~isDrawing /\ StartDrawing(p)
    \/ \E p \in TapPoints : isDrawing /\ MayMove /\ Draw(p)
    \/ (isDrawing => MayRecordOne) /\ StopDrawing
    \/ MayRecordOne /\ ClearCanvas
    \/ Undo
    \/ Redo
    \/ \E src \in Sources : MayLoad /\ LoadImage(src)
    \/ \E i \in 1 .. MaxPending : MayRecordOne /\ ImageLoaded(i)
    \/ \E i \in 1 .. MaxPending : ImageFailed(i)
    \/ ExportImage

SpecFrame == Init /\ [][NextFrame]_vars

\* Strokes only, from the unmounted component up to past the history limit.
MaxStrokes == 53

NextStrokes ==
    \/ Mount(DefaultDim)
    \/ \E p \in TapPoints : ~isDrawing /\ StartDrawing(p)
    \/ isDrawing /\ nRecords < MaxStrokes /\ StopDrawing

SpecStrokes == Init /\ [][NextStrokes]_vars

\* The host may render the component with any tool.
InitAnyTool ==
    \E t \in Tools :
        /\ tool = t
        /\ mounted = FALSE
        /\ isDrawing = FALSE
        /\ main = Fill(DefaultDim, Transparent)
        /\ temp = Fill(DefaultDim, Transparent)
        /\ tctx = ResetCtx
        /\ historyRef = <<>>
        /\ historyStep = -1
        /\ pending = <<>>
        /\ nRecords = 0
        /\ openStroke = NoStroke
        /\ last = [op |-> "none", eff |-> FALSE, step |-> -1, len |-> 0]
        /\ messages = <<>>
        /\ isProcessing = FALSE
        /\ requests = <<>>

\* Strokes of several points, with undo and redo, and nothing else.
NextUndo ==
    \/ \E d \in Dims : Mount(d)
    \/ \E p \in Points : StartDrawing(p)
    \/ \E p \in Points : MayMove /\ Draw(p)
    \/ (isDrawing => MayRecord) /\ StopDrawing
    \/ Undo
    \/ Redo

SpecUndo == InitAnyTool /\ [][NextUndo]_vars

\* The host renders the component with a tool outside the sliders' ranges.
InitBadTool ==
    \E t \in BadTools :
        /\ tool = t
        /\ mounted = FALSE
        /\ isDrawing = FALSE
        /\ main = Fill(DefaultDim, Transparent)
        /\ temp = Fill(DefaultDim, Transparent)
        /\ tctx = ResetCtx
        /\ historyRef = <<>>
        /\ historyStep = -1
        /\ pending = <<>>
        /\ nRecords = 0
        /\ openStroke = NoStroke
        /\ last = [op |-> "none", eff |-> FALSE, step |-> -1, len |-> 0]
        /\ messages = <<>>
        /\ isProcessing = FALSE
        /\ requests = <<>>

SpecConfig == InitBadTool /\ [][NextUndo]_vars

\* Container sizes narrower than the images: two by one and one by one.
LoadDims == {Dim(2, 1), Dim(1, 1)}

\* An image load in flight while the container is resized, among strokes.
\* The entry in flight keeps, as history, the size the main canvas had at
\* the call (`at`).
NextLoad ==
    \/ \E d \in LoadDims : Mount(d)
    \/ \E d \in LoadDims : Resize(d)
    \/ \E p \in TapPoints : ~isDrawing /\ StartDrawing(p)
    \/ (isDrawing => MayRecord) /\ StopDrawing
    \/ \E src \in Images : MayLoad /\ LoadImage(src @@ [at |-> DimOf(main)])
    \/ \E i \in 1 .. MaxPending : MayRecord /\ ImageLoaded(i)

SpecLoad == Init /\ [][NextLoad]_vars

\* Image loads in flight, up to MaxInFlight at once, among strokes, clears
\* and undo, in a container that keeps its size.
MaxInFlight == MaxPending + 1

NextRace ==
    \/ Mount(DefaultDim)
    \/ \E p \in TapPoints : ~isDrawing /\ StartDrawing(p)
    \/ (isDrawing => MayRecord) /\ StopDrawing
    \/ MayRecord /\ ClearCanvas
    \/ MayUndo /\ Undo
    \/ \E src \in Images : Len(pending) < MaxInFlight /\ LoadImage(src)
    \/ \E i \in 1 .. MaxInFlight : MayRecord /\ ImageLoaded(i)

SpecRace == Init /\ [][NextRace]_vars

\* Images and containers of every width and height up to MaxSide; one load
\* after the mount.
MaxSide == 3

FitDims == {Dim(w, h) : w \in 1 .. MaxSide, h \in 1 .. MaxSide}

\* A decoded w x h image, black all over.
Plain(w, h) == [w |-> w, h |-> h, px |-> [p \in Pixels(w, h) |-> Black]]

FitImages == {[ok |-> TRUE, img |-> Plain(d.w, d.h)] : d \in FitDims}

FirstLoad == pending = <<>> /\ Len(historyRef) = 1

NextFit ==
    \/ \E d \in FitDims : Mount(d)
    \/ \E src \in FitImages : FirstLoad /\ LoadImage(src)
    \/ \E i \in 1 .. MaxPending : ImageLoaded(i)

SpecFit == Init /\ [][NextFit]_vars

\* The mount, with the effects run once or more before the first event,
\* then strokes, undo, redo and resizes.
NextInit ==
    \/ \E d \in Dims : Mount(d)
    \/ \E d \in Dims : last.op \in {"mount", "remount"} /\ Remount(d)
    \/ \E d \in Dims : Resize(d)
    \/ \E p \in TapPoints : ~isDrawing /\ StartDrawing(p)
    \/ (isDrawing => MayRecord) /\ StopDrawing
    \/ Undo
    \/ Redo

SpecInit == InitAnyTool /\ [][NextInit]_vars

\* Taps up to past the history limit, then undo as far as it goes.
NextDepth ==
    \/ Mount(DefaultDim)
    \/ \E p \in TapPoints :
          ~isDrawing /\ historyStep = Len(historyRef) - 1 /\ StartDrawing(p)
    \/ isDrawing /\ nRecords < MaxStrokes /\ StopDrawing
    \/ ~isDrawing /\ Undo

SpecDepth == Init /\ [][NextDepth]_vars

\* Strokes of several points, with undo and redo only while a stroke is
\* open.
NextMid ==
    \/ \E d \in Dims : Mount(d)
    \/ \E p \in Points : ~isDrawing /\ StartDrawing(p)
    \/ \E p \in Points : isDrawing /\ MayMove /\ Draw(p)
    \/ (isDrawing => MayRecord) /\ StopDrawing
    \/ isDrawing /\ Undo
    \/ isDrawing /\ Redo

SpecMid == InitAnyTool /\ [][NextMid]_vars

\* One stroke at a time, the host changing the tool and the layout
\* changing the container while the stroke is open.
NextDraw ==
    \/ \E d \in Dims : Mount(d)
    \/ \E d \in Dims : Resize(d)
    \/ \E t \in Tools : isDrawing /\ ToolChange(t)
    \/ \E p \in TapPoints : ~isDrawing /\ StartDrawing(p)
    \/ \E p \in Points : MayMove /\ Draw(p)
    \/ (isDrawing => MayRecordOne) /\ StopDrawing
    \/ MayRecordOne /\ ClearCanvas

SpecDraw == InitAnyTool /\ [][NextDraw]_vars

\* Around the history limit: from InitNearCap, taps, clears, undo and redo.
NextCap ==
    \/ \E d \in Dims : Resize(d)
    \/ \E p \in TapPoints : StartDrawing(p)
    \/ (isDrawing => MayRecordCap) /\ StopDrawing
    \/ MayRecordCap /\ ClearCanvas
    \/ MayUndo /\ Undo
    \/ Redo

SpecCap == InitNearCap /\ [][NextCap]_vars

\* The near-limit state is one the strokes reach.
NotNearCap == ~InitNearCap

----------------------------------------------------------------------------
(* Properties *)

\* The step just taken recorded a history entry.
Recorded == last'.op \in {"up", "clear", "loaded"} /\ last'.eff

Marks(t) == {q \in Pixels(t.w, t.h) : t.px[q] # Transparent}

\* C1 (branch destruction): a recording operation (completed stroke, clear,
\* image load) that starts behind the last entry discards every entry after
\* the cursor, leaves its snapshot as the last entry with the cursor on it,
\* and a redo() right after it changes neither the cursor nor the canvas.
C1_BranchDestruction ==
    [][(Recorded /\ historyStep < Len(historyRef) - 1) =>
         /\ historyRef' = Append(SubSeq(historyRef, 1, historyStep + 1), main')
         /\ historyStep' = Len(historyRef') - 1
         /\ redo(historyRef', historyStep', main')
               = [step |-> historyStep', main |-> main']]_vars

\* A recording operation has just run from behind the last entry.
C1_Witness ==
    /\ last.op \in {"up", "clear", "loaded"} /\ last.eff
    /\ last.step < last.len - 1
    /\ Len(historyRef) = last.step + 2

\* C2 (undo/redo inverse): right after a completed stroke, undo() gives the
\* main canvas as it was before the stroke was composited, and a redo()
\* after that gives the canvas and the step as the stroke left them.
C2_UndoRedoInverse ==
    [][(last'.op = "up" /\ last'.eff) =>
         LET u == undo(historyRef', historyStep', main')
             r == redo(historyRef', u.step, u.main)
         IN  /\ u.main = main
             /\ u.step = historyStep' - 1
             /\ r.main = main'
             /\ r.step = historyStep']_vars

\* The second stroke has been undone: the canvas shows the first stroke only.
C2_Witness ==
    /\ last.op = "undo" /\ last.eff
    /\ historyStep = 1 /\ Len(historyRef) = 3
    /\ main = historyRef[2]
    /\ main # historyRef[3]
    /\ main # Fill(DimOf(main), White)

\* C3 (history monotonicity): after N completed strokes and nothing else
\* the step is N and the history holds N + 1 entries while N < MaxHistory,
\* and MaxHistory entries with the step on the last of them from then on.
C3_HistoryMonotonic ==
    mounted =>
        LET N == nRecords - 1
        IN  IF N <= MaxHistory - 1
            THEN historyStep = N /\ Len(historyRef) = N + 1
            ELSE historyStep = MaxHistory - 1 /\ Len(historyRef) = MaxHistory

\* More strokes were completed than the history holds.
C3_Witness ==
    /\ nRecords - 1 > MaxHistory
    /\ last.op = "up" /\ last.eff
    /\ Len(historyRef) = MaxHistory

\* C4 (history cap): the history never holds more than MaxHistory entries;
\* a record on a full history drops exactly the oldest entry, keeps the
\* others in order and leaves the step on the snapshot it appended.
C4_HistoryCap ==
    [][/\ Len(historyRef') <= MaxHistory
       /\ (Recorded /\ Len(historyRef) = MaxHistory
                    /\ historyStep = Len(historyRef) - 1) =>
             /\ historyRef' = Append(Tail(historyRef), main')
             /\ historyStep' = (historyStep + 1) - 1
             /\ historyRef'[historyStep' + 1] = main']_vars

\* A record has just run on a full history with the cursor at its end.
C4_Witness ==
    /\ last.op \in {"up", "clear"} /\ last.eff
    /\ last.len = MaxHistory /\ last.step = MaxHistory - 1
    /\ Len(historyRef) = MaxHistory

\* C5 (cursor bounds): once mounted, the history has an entry and the step
\* indexes one of its entries.
C5_CursorBounds ==
    mounted =>
        /\ Len(historyRef) >= 1
        /\ 0 <= historyStep
        /\ historyStep < Len(historyRef)

\* Undo has walked back to the first of three entries.
C5_Witness ==
    /\ last.op = "undo" /\ last.eff
    /\ historyStep = 0
    /\ Len(historyRef) >= 3

\* C6 (exhausted history): undo() at step 0 and redo() at the last entry
\* change nothing of the engine.
C6_ExhaustedNoOp ==
    [][(\/ last'.op = "undo" /\ historyStep = 0
        \/ last'.op = "redo" /\ historyStep = Len(historyRef) - 1) =>
         UNCHANGED <<historyStep, historyRef, main, temp, tctx, isDrawing,
                     pending, tool>>]_vars

\* undo() has just run at step 0 of a history with entries to redo, while a
\* stroke was open.
C6_Witness ==
    /\ last.op = "undo" /\ ~last.eff
    /\ historyStep = 0
    /\ Len(historyRef) >= 2
    /\ Marks(temp) # {}

\* C7 (resize): a resize to other dimensions leaves the history and the
\* step as they are; the main canvas takes the new dimensions and holds its
\* former content stretched to them, which exportImage() returns.
C7_ResizeKeepsHistory ==
    [][\A d \in Dims : (Resize(d) /\ d # DimOf(main)) =>
         /\ historyRef' = historyRef
         /\ historyStep' = historyStep
         /\ DimOf(main') = d
         /\ main' = Stretch(main, d)
         /\ exportImage(main')
               = [mime |-> "image/png", w |-> d.w, h |-> d.h,
                  data |-> Stretch(main, d).px]]_vars

\* A canvas with marks has just been resized; the current entry keeps the
\* size it was recorded at.
C7_Witness ==
    /\ last.op = "resize" /\ last.eff
    /\ Len(historyRef) >= 2
    /\ main # Fill(DimOf(main), White)
    /\ DimOf(historyRef[historyStep + 1]) # DimOf(main)

\* C8 as stated (clear): after clearCanvas() the main canvas is all
\* background, the temp canvas all transparent, one entry has been
\* recorded with the step on it, and one undo() gives back the main canvas
\* as it was right before the clear.
C8_ClearAsStated ==
    [][ClearCanvas =>
         /\ main' = Fill(DimOf(main), White)
         /\ temp' = Fill(DimOf(temp), Transparent)
         /\ historyRef' = Append(SubSeq(historyRef, 1, historyStep + 1), main')
         /\ historyStep' = Len(historyRef') - 1
         /\ undo(historyRef', historyStep', main').main = main]_vars

\* C8 (clear), amended: ... and one undo() gives back the entry that was
\* current before the clear, stretched to the size the canvas has now.
C8_Clear ==
    [][ClearCanvas =>
         /\ main' = Fill(DimOf(main), White)
         /\ temp' = Fill(DimOf(temp), Transparent)
         /\ historyRef' = Append(SubSeq(historyRef, 1, historyStep + 1), main')
         /\ historyStep' = Len(historyRef') - 1
         /\ undo(historyRef', historyStep', main').main
               = applyHistoryItem(main', historyRef[historyStep + 1])]_vars

\* A canvas with marks has just been cleared.
C8_Witness ==
    /\ last.op = "clear"
    /\ main = Fill(DimOf(main), White)
    /\ historyStep >= 1
    /\ historyRef[historyStep] # Fill(DimOf(historyRef[historyStep]), White)

\* C9 (tool fixed per stroke): a completed stroke is composited with the
\* opacity and mode of the tool at pointer-down, and, as long as the temp
\* context was not reset, was drawn with that tool's colour and width.
C9_ToolFixedPerStroke ==
    [][(last'.op = "up" /\ last'.eff) =>
         /\ main' = Composite(main, temp, compositeAlpha(openStroke.tool))
         /\ Len(tctx.path) = Len(openStroke.pts) =>
               /\ tctx.strokeStyle = (IF openStroke.tool.mode = "eraser"
                                      THEN White ELSE openStroke.tool.color)
               /\ tctx.lineWidth = openStroke.tool.width]_vars

\* C10 (resize during a stroke): a resize to other dimensions while a
\* stroke is open keeps marks on the temp canvas, keeps the stroke's
\* colour, width and path, and leaves the history and the step alone.
C10_ResizeMidStroke ==
    [][\A d \in Dims : (Resize(d) /\ d # DimOf(main) /\ isDrawing) =>
         /\ Marks(temp) # {} => Marks(temp') # {}
         /\ tctx'.strokeStyle = tctx.strokeStyle
         /\ tctx'.lineWidth = tctx.lineWidth
         /\ tctx'.path = tctx.path
         /\ historyRef' = historyRef
         /\ historyStep' = historyStep]_vars

\* C11 (eraser opacity): a completed stroke leaves every marked pixel of
\* the temp canvas on the main canvas at full opacity when the tool's mode
\* is eraser, whatever its opacity, and blended with exactly the tool's
\* opacity when the mode is brush; the other pixels keep their value.
C11_EraserOpacity ==
    [][(last'.op = "up" /\ last'.eff) =>
         \A p \in Pixels(main.w, main.h) :
             main'.px[p] =
                 IF p \in Pixels(temp.w, temp.h) /\ temp.px[p] # Transparent
                 THEN IF tool.mode = "eraser"
                      THEN temp.px[p]
                      ELSE Blend(temp.px[p], main.px[p], tool.opacity)
                 ELSE main.px[p]]_vars

\* A stroke with dark marks was completed in eraser mode at opacity below 1.
C11_Witness ==
    /\ last.op = "up" /\ last.eff
    /\ tool.mode = "eraser"
    /\ tool.opacity < OpacityScale
    /\ \E p \in Pixels(main.w, main.h) : main.px[p] = Black

\* C12 (an open stroke is not in committed data): pointer-down and
\* pointer-move leave the main canvas and the history as they are; while a
\* stroke is open, exportImage() returns the main canvas alone and changes
\* nothing, a clear records the blank canvas, and a completed image load
\* records the blank canvas with the image on it.
C12_OpenStrokeUnobservable ==
    [][/\ last'.op \in {"down", "move"} =>
             /\ main' = main
             /\ historyRef' = historyRef
             /\ historyStep' = historyStep
       /\ last'.op = "export" =>
             /\ last'.url.data = main.px
             /\ UNCHANGED <<main, temp, tctx, isDrawing, historyRef, historyStep,
                            pending>>
       /\ (isDrawing /\ last'.op = "clear") =>
             /\ historyRef'[Len(historyRef')] = Fill(DimOf(main), White)
       /\ (isDrawing /\ last'.op = "loaded") =>
             /\ historyRef'[Len(historyRef')] = main'
             /\ \E i \in DOMAIN pending :
                    main' = placeImage(Fill(DimOf(main), White), pending[i].img)]_vars

\* An image load completed and was recorded while a stroke with marks was
\* open: the recorded entry is the canvas with the image on it.
C12_Witness ==
    /\ isDrawing
    /\ last.op = "loaded"
    /\ Marks(temp) # {}
    /\ historyRef[historyStep + 1] = main
    /\ \E p \in Pixels(main.w, main.h) : main.px[p] = Red

\* C13 (pointer-up with no open stroke): stopDrawing with no stroke open
\* changes neither canvas, the history, the step nor the temp context; with
\* a stroke open it closes the stroke and appends one entry, so a second
\* pointer-up for the same stroke records nothing.
C13_StopWithoutStroke ==
    [][/\ (last'.op = "up" /\ ~isDrawing) =>
             UNCHANGED <<main, temp, tctx, historyRef, historyStep, isDrawing,
                         pending>>
       /\ (last'.op = "up" /\ isDrawing) =>
             /\ ~isDrawing'
             /\ Len(historyRef') = historyStep + 2]_vars

\* A pointer-up has just arrived with no stroke open, after a stroke was
\* completed and recorded.
C13_Witness ==
    /\ last.op = "up" /\ ~last.eff
    /\ ~isDrawing
    /\ Len(historyRef) = 2 /\ historyStep = 1
    /\ \E p \in Pixels(main.w, main.h) : main.px[p] = Black

\* C14 (what records history): once mounted, a completed stroke, a clear
\* and a completed image load each append exactly one entry, the snapshot
\* of the main canvas, after the entries up to the step; every other
\* operation (pointer-down, pointer-move, pointer-up with no stroke, undo,
\* redo, resize, export, a load request, a failed load) leaves the history
\* as it is.
C14_WhatRecords ==
    [][mounted =>
         IF Recorded
         THEN historyRef' = Append(SubSeq(historyRef, 1, historyStep + 1), main')
         ELSE historyRef' = historyRef]_vars

\* A resize to other dimensions has just run on a history of two entries,
\* and two entries it still has.
C14_Witness ==
    /\ last.op = "resize" /\ last.eff
    /\ last.len = 2
    /\ Len(historyRef) = 2
    /\ DimOf(historyRef[2]) # DimOf(main)

\* C15 (decode failure): a loadImage whose image does not decode changes
\* nothing but the set of decodes in flight, at the request and at the
\* failure: both canvases, the temp context, the history and the step stay
\* as they are.
C15_DecodeFailureNoEffect ==
    [][(\/ last'.op = "failed"
        \/ last'.op = "load" /\ ~pending'[Len(pending')].ok) =>
         UNCHANGED <<main, temp, tctx, historyRef, historyStep, isDrawing>>]_vars

\* A decode has just failed on a canvas with a recorded stroke on it.
C15_Witness ==
    /\ last.op = "failed"
    /\ Len(historyRef) = 2 /\ historyStep = 1
    /\ \E p \in Pixels(main.w, main.h) : main.px[p] = Black
    /\ historyRef[2] = main

\* C16 (decode failure is reported): when a decode fails, what the caller
\* can read through the handle differs from what it read while the decode
\* was in flight.
C16_FailureReported ==
    [][last'.op = "failed" => CallerView(main') # CallerView(main)]_vars

\* C17 (configuration errors): a pointer-down while the tool has a width of
\* zero or less, or an opacity outside [0, 1], opens no stroke and draws
\* nothing on the temp canvas, and the pointer-up after it records nothing.
C17_ConfigRejected ==
    [][(tool.width <= 0 \/ tool.opacity \notin 0 .. OpacityScale) =>
         /\ last'.op = "down" =>
               /\ isDrawing' = isDrawing
               /\ Marks(temp') = Marks(temp)
         /\ last'.op = "up" => historyRef' = historyRef]_vars

\* C18 (load uses the canvas as it is at completion): a completed decode
\* leaves the main canvas at its current size, blank with the image fitted
\* to that size, whatever the size was when loadImage was called, and
\* records one entry of that size with the step on it.
C18_LoadAtCompletion ==
    [][last'.op = "loaded" =>
         LET img == pending[last'.idx].img
         IN  /\ DimOf(main') = DimOf(main)
             /\ main' = DrawImageAt(Fill(DimOf(main), White), img,
                                    AspectFit(img.w, img.h, main.w, main.h))
             /\ Len(historyRef') = historyStep + 2
             /\ historyStep' = Len(historyRef') - 1
             /\ historyRef'[historyStep' + 1] = main'
             /\ DimOf(historyRef'[historyStep' + 1]) = DimOf(main)]_vars

\* A decode has completed on a canvas resized since loadImage was called.
C18_Witness ==
    /\ last.op = "loaded"
    /\ last.src.at # DimOf(main)
    /\ DimOf(historyRef[historyStep + 1]) = DimOf(main)
    /\ historyStep = Len(historyRef) - 1

\* C19 (no cancellation): no stroke, clear, undo or later loadImage removes
\* a decode in flight, and every decode in flight that succeeds can
\* complete; when it does, whatever ran since its request, the main canvas
\* becomes the blank canvas with its image, the entries after the step are
\* dropped and the canvas is recorded as the last entry. Of two decodes in
\* flight, the one that completes last decides the canvas.
C19_NoCancellation ==
    /\ [](\A i \in DOMAIN pending : pending[i].ok => ENABLED ImageLoaded(i))
    /\ [][/\ last'.op \in {"down", "up", "clear", "undo"} => pending' = pending
          /\ last'.op = "load" => SubSeq(pending', 1, Len(pending)) = pending
          /\ last'.op = "loaded" =>
                LET img == pending[last'.idx].img
                IN  /\ main' = placeImage(Fill(DimOf(main), White), img)
                    /\ historyRef' = Append(SubSeq(historyRef, 1, historyStep + 1), main')
                    /\ historyStep' = Len(historyRef') - 1
                    /\ pending' = Remove(pending, last'.idx)]_vars

\* After a stroke and an undo, two loads were requested and the second has
\* completed first: the stroke's entry is gone, the canvas shows the second
\* image, and the first decode is still in flight.
C19_Witness ==
    /\ last.op = "loaded"
    /\ last.idx = 2
    /\ last.step < last.len - 1
    /\ Len(historyRef) = last.step + 2
    /\ main = placeImage(Fill(DefaultDim, White), Mirror)
    /\ Len(pending) = 1 /\ pending[1].img = Photo

\* C20 (surface sizes): the main and the temp canvas always have the same
\* width and height; only a resize (also the one of the mount) changes the
\* size of either, and it changes both: a stroke, a clear, a load, and an
\* undo or redo to an entry of another size leave both sizes as they are.
C20_SameSize ==
    /\ [](DimOf(main) = DimOf(temp))
    /\ [][last'.op \notin {"resize", "mount"} =>
             /\ DimOf(main') = DimOf(main)
             /\ DimOf(temp') = DimOf(temp)]_vars

\* An undo or redo has just applied an entry recorded at another size.
C20_Witness ==
    /\ last.op \in {"undo", "redo"} /\ last.eff
    /\ DimOf(historyRef[historyStep + 1]) # DimOf(main)
    /\ DimOf(temp) = DimOf(main)
    /\ main # Fill(DimOf(main), White)

\* C21 (restore at another size): an undo() or redo() that restores an
\* entry whose size differs from the main canvas's leaves the canvas at its
\* size, every pixel taking the entry's pixel that the stretch to the full
\* canvas puts there, and leaves the entry and the rest of the history as
\* they are.
C21_RestoreOtherSize ==
    [][(/\ last'.op \in {"undo", "redo"} /\ last'.eff
        /\ DimOf(historyRef[historyStep' + 1]) # DimOf(main)) =>
         LET e == historyRef[historyStep' + 1]
         IN  /\ DimOf(main') = DimOf(main)
             /\ \A p \in Pixels(main.w, main.h) :
                    main'.px[p] = e.px[<<SrcIdx(p[1], main.w, e.w),
                                         SrcIdx(p[2], main.h, e.h)>>]
             /\ historyRef' = historyRef]_vars

\* A redo has just restored an entry with marks that was recorded at
\* another size.
C21_Witness ==
    /\ last.op = "redo" /\ last.eff
    /\ DimOf(historyRef[historyStep + 1]) # DimOf(main)
    /\ \E p \in Pixels(main.w, main.h) : main.px[p] = Black
    /\ historyRef[historyStep + 1] # main

\* C22 (resize to the same size): a resize event with the container at the
\* canvas's size changes neither canvas, the temp context (path and style
\* of an open stroke included), the history, the step nor the open stroke.
C22_ResizeSameSize ==
    [][\A d \in Dims : (Resize(d) /\ d = DimOf(main)) =>
         UNCHANGED <<main, temp, tctx, historyRef, historyStep, isDrawing,
                     pending>>]_vars

\* A resize event at the canvas's size has just run while a red stroke with
\* marks was open.
C22_Witness ==
    /\ last.op = "resize" /\ ~last.eff
    /\ isDrawing
    /\ Marks(temp) # {}
    /\ tctx.strokeStyle = Red
    /\ Len(tctx.path) >= 2

\* C23 (aspect fit): for an image and a canvas of any width and height up
\* to MaxSide, the rectangle a completed load draws the image in lies within
\* the canvas, has the image's aspect ratio, spans the canvas on one axis
\* and has equal margins on the other; a 200 x 100 image on a 100 x 100
\* canvas is drawn 100 x 50 at vertical offset 25.
C23_AspectFit ==
    [][last'.op = "loaded" =>
         LET img == pending[last'.idx].img
             r == AspectFit(img.w, img.h, main.w, main.h)
             e == AspectFit(200, 100, 100, 100)
         IN  /\ main' = DrawImageAt(Fill(DimOf(main), White), img, r)
             /\ r.den > 0 /\ r.drawWidth > 0 /\ r.drawHeight > 0
             /\ 0 <= r.offsetX /\ r.offsetX + r.drawWidth <= main.w * r.den
             /\ 0 <= r.offsetY /\ r.offsetY + r.drawHeight <= main.h * r.den
             /\ r.drawWidth * img.h = r.drawHeight * img.w
             /\ r.drawWidth = main.w * r.den \/ r.drawHeight = main.h * r.den
             /\ 2 * r.offsetX + r.drawWidth = main.w * r.den
             /\ 2 * r.offsetY + r.drawHeight = main.h * r.den
             /\ e.drawWidth = 100 * e.den /\ e.drawHeight = 50 * e.den
             /\ e.offsetX = 0 /\ e.offsetY = 25 * e.den]_vars

\* A load has completed with an image wider than the canvas in proportion:
\* bars above and below it stay white.
C23_Witness ==
    /\ last.op = "loaded"
    /\ AspectFit(last.src.img.w, last.src.img.h, main.w, main.h).offsetY > 0
    /\ main.h = MaxSide
    /\ main.px[<<1, 1>>] = White
    /\ \E p \in Pixels(main.w, main.h) : main.px[p] = Black

\* C24 (initial state): the mount, and every further run of the mount
\* effects before the first event, leaves the main canvas white all over,
\* the temp canvas transparent all over, and the history with exactly one
\* entry, a blank canvas, with the step 0 on it.
C24_InitialState ==
    [][last'.op \in {"mount", "remount"} =>
         /\ main' = Fill(DimOf(main'), White)
         /\ temp' = Fill(DimOf(temp'), Transparent)
         /\ Len(historyRef') = 1
         /\ historyStep' = 0
         /\ historyRef'[1] = Fill(DimOf(historyRef'[1]), White)
         /\ ~isDrawing']_vars

\* The mount effects have run a second time, in a container of another
\* size than the element's default.
C24_Witness ==
    /\ last.op = "remount"
    /\ last.len = 1
    /\ Len(historyRef) = 1
    /\ DimOf(main) # DefaultDim

\* C25 (temp canvas with no stroke open): whenever no stroke is open, every
\* pixel of the temp canvas is transparent.
C25_ScratchEmpty ==
    ~isDrawing => Marks(temp) = {}

\* A pointer-move has just arrived with no stroke open, after a stroke was
\* completed.
C25_Witness ==
    /\ last.op = "move" /\ ~last.eff
    /\ ~isDrawing
    /\ Len(historyRef) = 2
    /\ main # Fill(DimOf(main), White)
    /\ temp = Fill(DimOf(main), Transparent)

\* C26 (what undo and redo write): undo() and redo() leave the history, its
\* entries and their order, the temp canvas and its context, the open
\* stroke and the decodes in flight as they are.
C26_UndoRedoFrame ==
    [][last'.op \in {"undo", "redo"} =>
         /\ historyRef' = historyRef
         /\ temp' = temp
         /\ tctx' = tctx
         /\ isDrawing' = isDrawing
         /\ pending' = pending]_vars

\* An undo has just taken effect while a stroke with marks was open.
C26_Witness ==
    /\ last.op = "undo" /\ last.eff
    /\ isDrawing
    /\ Marks(temp) # {}
    /\ Len(historyRef) = last.len
    /\ historyStep = last.step - 1
    /\ main = historyRef[historyStep + 1]

\* C27 as stated (the main canvas and the current entry): once mounted, the
\* main canvas is the entry at the step stretched to the canvas's size.
C27_AsStated ==
    mounted => main = Stretch(historyRef[historyStep + 1], DimOf(main))

\* C27, amended: right after the mount, a record, or an undo or redo that
\* took effect, the main canvas is the entry at the step stretched to the
\* canvas's size (the entry itself after a record); a resize leaves the
\* entry and stretches the canvas as it is to the new size; every other
\* operation leaves both the canvas and the entry at the step as they are.
C27_CommittedMatches ==
    [][mounted' =>
         IF \/ Recorded
            \/ last'.op \in {"undo", "redo"} /\ last'.eff
            \/ last'.op = "mount"
         THEN /\ main' = Stretch(historyRef'[historyStep' + 1], DimOf(main'))
              /\ Recorded => main' = historyRef'[historyStep' + 1]
         ELSE /\ historyRef'[historyStep' + 1] = historyRef[historyStep + 1]
              /\ IF last'.op = "resize"
                 THEN main' = Stretch(main, DimOf(main'))
                 ELSE main' = main]_vars

\* After one resize the canvas is the entry with marks stretched to the new
\* size, and is not the entry.
C27_Witness ==
    /\ last.op = "resize" /\ last.eff
    /\ main = Stretch(historyRef[historyStep + 1], DimOf(main))
    /\ main # historyRef[historyStep + 1]
    /\ \E p \in Pixels(main.w, main.h) : main.px[p] = Black

\* C28 (depth of undo): after N taps from the blank canvas, N < MaxHistory,
\* the history has N + 1 entries, each undo() above step 0 moves one entry
\* back, and at step 0 the canvas is white all over; after MaxHistory taps or
\* more the history has MaxHistory entries, none of them blank, the step is
\* at most MaxHistory - 1, and no undo() makes the canvas blank.
C28_UndoDepth ==
    /\ [](mounted =>
            LET N == nRecords - 1
            IN  IF N <= MaxHistory - 1
                THEN /\ Len(historyRef) = N + 1
                     /\ historyStep = 0 => main = Fill(DimOf(main), White)
                ELSE /\ Len(historyRef) = MaxHistory
                     /\ historyStep <= MaxHistory - 1
                     /\ \A i \in DOMAIN historyRef :
                            historyRef[i] # Fill(DimOf(historyRef[i]), White)
                     /\ main # Fill(DimOf(main), White))
    /\ [][last'.op = "undo" =>
            IF historyStep > 0
            THEN /\ historyStep' = historyStep - 1
                 /\ main' = historyRef[historyStep' + 1]
            ELSE UNCHANGED <<historyStep, main>>]_vars

\* After more taps than the history holds, undo has reached step 0: the
\* canvas still shows a tap.
C28_Witness ==
    /\ nRecords - 1 >= MaxHistory
    /\ last.op = "undo" /\ last.eff
    /\ historyStep = 0
    /\ main = Tapped

\* C29 (eviction and truncation): a record drops the oldest entry only when
\* the history is full and the step is on its last entry; a record that
\* starts behind the last entry keeps the first entry and ends with the
\* entries up to the old step plus the snapshot, old step + 2 in all.
C29_EvictOrTruncate ==
    [][Recorded =>
         /\ Len(historyRef') # historyStep + 2 =>
               /\ Len(historyRef) = MaxHistory
               /\ historyStep = Len(historyRef) - 1
               /\ historyRef' = Append(Tail(historyRef), main')
         /\ historyStep < Len(historyRef) - 1 =>
               /\ Len(historyRef') = historyStep + 2
               /\ historyRef' = Append(SubSeq(historyRef, 1, historyStep + 1), main')
               /\ historyRef'[1] = historyRef[1]]_vars

\* A record has just run on a full history from two entries behind its end.
C29_Witness ==
    /\ last.op \in {"up", "clear"} /\ last.eff
    /\ last.len = MaxHistory
    /\ last.step = MaxHistory - 3
    /\ Len(historyRef) = MaxHistory - 1
    /\ historyStep = MaxHistory - 2

\* C30 (undo and redo during a stroke): an undo() or redo() while a stroke
\* is open leaves the stroke open and the temp canvas and its context as
\* they are, and puts the entry it moves to on the main canvas; the
\* pointer-up then composites the temp canvas onto that restored content
\* and records the result right after the entry at the step, dropping the
\* entries beyond it.
C30_UndoDuringStroke ==
    [][/\ (last'.op \in {"undo", "redo"} /\ isDrawing) =>
             /\ isDrawing'
             /\ temp' = temp
             /\ tctx' = tctx
             /\ last'.eff =>
                   main' = Stretch(historyRef[historyStep' + 1], DimOf(main))
       /\ (last'.op = "up" /\ isDrawing) =>
             /\ main' = Composite(Stretch(historyRef[historyStep + 1], DimOf(main)),
                                  temp, compositeAlpha(tool))
             /\ historyRef' = Append(SubSeq(historyRef, 1, historyStep + 1), main')
             /\ historyStep' = historyStep + 1]_vars

\* A stroke during which undo ran has just been completed: it was recorded
\* right after the restored entry, in place of the entry undone.
C30_Witness ==
    /\ last.op = "up" /\ last.eff
    /\ last.step < last.len - 1
    /\ Len(historyRef) = last.step + 2
    /\ historyStep = last.step + 1
    /\ main # Fill(DimOf(main), White)

----------------------------------------------------------------------------
(* The host's send handler *)

MaxSends == 3       \* sends the host accepts

\* The sketch the handler reads through canvasRef: nothing before the canvas
\* is mounted, its PNG export afterwards.
sketchData == IF mounted THEN exportImage(main) ELSE "undefined"

\* handleSendMessage without its first early return.
HandleSendMessageUnguarded ==
    /\ IF mounted
       THEN /\ messages' = Append(messages, [role |-> "user", imageUrl |-> sketchData])
            /\ isProcessing' = TRUE
            /\ requests' = Append(requests, [base64Sketch |-> sketchData])
       ELSE UNCHANGED hostVars
    /\ last' = Op("send", mounted)
    /\ UNCHANGED <<mounted, tool, isDrawing, main, temp, tctx, historyRef,
                   historyStep, pending, nRecords, openStroke>>

\* handleSendMessage up to its await: return while a request is in flight
\* or when there is no sketch; otherwise append the user's message with the
\* sketch, set isProcessing and call generateImageFromSketch.
HandleSendMessage ==
    /\ IF ~isProcessing /\ mounted
       THEN /\ messages' = Append(messages, [role |-> "user", imageUrl |-> sketchData])
            /\ isProcessing' = TRUE
            /\ requests' = Append(requests, [base64Sketch |-> sketchData])
       ELSE UNCHANGED hostVars
    /\ last' = Op("send", ~isProcessing /\ mounted)
    /\ UNCHANGED <<mounted, tool, isDrawing, main, temp, tctx, historyRef,
                   historyStep, pending, nRecords, openStroke>>

\* The awaited call resolves: the try block appends the model's message and
\* the finally block resets isProcessing.
RequestResolved(i) ==
    /\ i \in DOMAIN requests
    /\ messages' = Append(messages, [role |-> "model",
                                     originalSketchUrl |-> requests[i].base64Sketch])
    /\ isProcessing' = FALSE
    /\ requests' = Remove(requests, i)
    /\ last' = Op("resolved", TRUE)
    /\ UNCHANGED <<mounted, tool, isDrawing, main, temp, tctx, historyRef,
                   historyStep, pending, nRecords, openStroke>>

\* The awaited call rejects (no API key, or the API call throws): the catch
\* block appends the system's error message and the finally block resets
\* isProcessing.
RequestRejected(i) ==
    /\ i \in DOMAIN requests
    /\ messages' = Append(messages, [role |-> "system"])
    /\ isProcessing' = FALSE
    /\ requests' = Remove(requests, i)
    /\ last' = Op("rejected", TRUE)
    /\ UNCHANGED <<mounted, tool, isDrawing, main, temp, tctx, historyRef,
                   historyStep, pending, nRecords, openStroke>>

MaySend == Len(messages) < 2 * MaxSends - 1

\* The host sending sketches while the user draws taps.
NextHost ==
    \/ Mount(DefaultDim)
    \/ \E p \in TapPoints : ~isDrawing /\ StartDrawing(p)
    \/ (isDrawing => MayRecordOne) /\ StopDrawing
    \/ (isProcessing \/ MaySend) /\ HandleSendMessage
    \/ \E i \in DOMAIN requests : RequestResolved(i)
    \/ \E i \in DOMAIN requests : RequestRejected(i)

SpecHost == Init /\ [][NextHost]_vars

\* C31 (host send guard): handleSendMessage does nothing while a generation
\* request is in flight; an accepted send appends exactly one user message,
\* carrying the sketch, and starts one request; when the request settles
\* exactly one reply is appended, a model message if it resolved and a system
\* message if it rejected, and isProcessing is false afterwards either way.
\* So at most one request is ever in flight, isProcessing is true exactly
\* while one is, and the chat alternates user messages and replies.
C31_SendGuard ==
    /\ [](/\ Len(requests) <= 1
          /\ isProcessing <=> (requests # <<>>)
          /\ \A i \in DOMAIN messages :
                IF i % 2 = 1 THEN messages[i].role = "user"
                             ELSE messages[i].role \in {"model", "system"}
          /\ Len(messages) % 2 = Len(requests))
    /\ [][/\ (last'.op = "send" /\ isProcessing) => UNCHANGED hostVars
          /\ (last'.op = "send" /\ last'.eff) =>
                /\ messages' = Append(messages, [role |-> "user",
                                                 imageUrl |-> exportImage(main)])
                /\ isProcessing'
                /\ Len(requests') = Len(requests) + 1
          /\ (last'.op \in {"resolved", "rejected"}) =>
                /\ Len(messages') = Len(messages) + 1
                /\ SubSeq(messages', 1, Len(messages)) = messages
                /\ messages'[Len(messages')].role =
                      (IF last'.op = "resolved" THEN "model" ELSE "system")
                /\ Len(requests') = Len(requests) - 1
                /\ ~isProcessing']_vars

\* A send has just been ignored because the third request is in flight; the
\* first request resolved and the second one rejected, each leaving one reply
\* and the handler open for the next send.
C31_Witness ==
    /\ last.op = "send" /\ ~last.eff
    /\ isProcessing
    /\ Len(messages) = 5
    /\ messages[2].role = "model"
    /\ messages[4].role = "system"

====
